---- MODULE Spec2Model ----
(***************************************************************************)
(* llmstxtdl: the retrying fetch client (src/src/http_client.rs) and the   *)
(* bounded concurrent download orchestrator (src/src/main.rs), with the    *)
(* result aggregator (src/src/error.rs).                                   *)
(*                                                                         *)
(* A fetch is a frame: the locals of one call of fetch_content or          *)
(* download_file, suspended at one of its await points.  Frame 0 is the    *)
(* manifest fetch of process_url; frame i >= 1 is the download_file call   *)
(* of the task spawned for the i-th manifest entry.                        *)
(***************************************************************************)
EXTENDS Integers, Sequences, FiniteSets, TLC

\* ---------------------------------------------------------------- bounds

\* Longest manifest (in lines) the server answers with.
MaxLines == 2

\* Largest value of the --threads argument (max_concurrent ranges over 0..MaxConcurrent).
MaxConcurrent == 2

\* ------------------------------------------------------ program constants

\* HttpClient::new: max_retries and base_delay (milliseconds).
max_retries == 3

base_delay == 500

\* ------------------------------------------------------------ environment

\* What one manifest line is, as far as parse_llms_txt's control flow goes:
\* blank, a comment, a list item without a link (skipped), a reference that
\* resolves to the URL "a" or "b", or a reference whose resolution fails.
LineKinds == {"", "#", "-", "a", "b", "bad"}

Urls == {"a", "b"}

Manifests == UNION {[1..n -> LineKinds] : n \in 0..MaxLines}

\* Status codes a response reaches the client with: success, redirection
\* (a 3xx the HTTP library does not follow, such as 304), client error and
\* server error classes.
AllStatuses == {200, 204, 304, 401, 403, 404, 500, 503}

\* reqwest::Error kinds of a failed send(): e.is_timeout() or not.
AllTransport == {"timeout", "connect"}

\* What send().await resolves to: a response with a status, or a transport error.
SendOutcome(S, T) ==
    [status : S, transport : {"none"}] \cup [status : {0}, transport : T]

AllSend == SendOutcome(AllStatuses, AllTransport)

\* The outcomes the manifest fetch and the download tasks of a run are
\* explored with.
ManifestSend == SendOutcome({200, 403, 404, 500}, AllTransport)

RunSend == SendOutcome({200, 404, 500}, {})

\* response.text() of a fetch_content call explored on its own.
FetchBodies == {<<>>, <<"a">>}

\* response.bytes() of download_file: the lengths of the bodies served, and
\* the length the server of a run serves each URL with.
BodyLens == {1, 2}

ServedLen(url) == IF url = "a" THEN 1 ELSE 2

\* ------------------------------------------------------------------ errors

NoError == [kind |-> "None", status |-> 0, url |-> "", cause |-> ""]

NetworkError(cause) == [kind |-> "NetworkError", status |-> 0, url |-> "", cause |-> cause]

IoError(cause) == [kind |-> "IoError", status |-> 0, url |-> "", cause |-> cause]

InvalidUrl(msg) == [kind |-> "InvalidUrl", status |-> 0, url |-> "", cause |-> msg]

\* ParseError(msg); `inner` is the kind of the error the message was formatted from.
ParseError(msg, inner) == [kind |-> "ParseError", status |-> 0, url |-> msg, cause |-> inner]

HttpError(status, url) == [kind |-> "HttpError", status |-> status, url |-> url, cause |-> ""]

FileNotFound(url) == [kind |-> "FileNotFound", status |-> 0, url |-> url, cause |-> ""]

Timeout(url) == [kind |-> "Timeout", status |-> 0, url |-> url, cause |-> ""]

\* Result<T, DownloadError>
Ok(v) == [ok |-> TRUE, val |-> <<v>>, err |-> NoError]

Err(e) == [ok |-> FALSE, val |-> <<>>, err |-> e]

NoResult == [ok |-> FALSE, val |-> <<>>, err |-> NoError]

\* ------------------------------------------------------------ fetch client

\* StatusCode::is_success and StatusCode::is_client_error
is_success(status) == status >= 200 /\ status <= 299

is_client_error(status) == status >= 400 /\ status <= 499

RECURSIVE Pow2(_)
Pow2(n) == IF n = 0 THEN 1 ELSE 2 * Pow2(n - 1)

\* A backoff that grows by base_delay at each retry.
calculate_delay_linear(attempt) == base_delay * (attempt + 1)

\* calculate_delay: base_delay * 2^attempt
calculate_delay(attempt) == base_delay * Pow2(attempt)

\* The error built from a non-2xx status.
status_error(status, url) ==
    IF status = 404 THEN FileNotFound(url) ELSE HttpError(status, url)

\* The error built from a failed send().
transport_error(transport, url) ==
    IF transport = "timeout" THEN Timeout(url) ELSE NetworkError(transport)

\* The frame of a call that has not started or has returned to its caller.
IdleFrame ==
    [pc |-> "idle", fn |-> "", url |-> "", attempt |-> 0, last_error |-> NoError,
     ret |-> NoResult, requests |-> 0, delays |-> <<>>, hist |-> <<>>,
     bytes_len |-> 0, wrote |-> FALSE]

\* The frame of a call at its first await: attempt 0 has issued its GET.
\* requests, delays and hist observe the call (the requests issued, the
\* backoff waits performed, how each attempt ended); the code does not read them.
StartFrame(fn, url) ==
    [IdleFrame EXCEPT !.pc = "get", !.fn = fn, !.url = url, !.requests = 1]

\* How an attempt ended.
Attempt(o, body, io) ==
    [status |-> o.status, transport |-> o.transport, body |-> body, io |-> io]

Noted(fm, a) == [fm EXCEPT !.hist = Append(@, a)]

\* return Err(error) from inside the loop
ReturnErr(fm, e) == [fm EXCEPT !.pc = "ret", !.ret = Err(e)]

\* The end of an iteration keeping the first error instead of the last.
EndOfAttemptKeepsFirst(fm, e) ==
    LET kept == IF fm.last_error = NoError THEN e ELSE fm.last_error IN
    IF fm.attempt < max_retries
    THEN [fm EXCEPT !.pc = "sleep", !.last_error = kept,
                    !.delays = Append(@, calculate_delay(fm.attempt))]
    ELSE [fm EXCEPT !.pc = "ret", !.last_error = kept, !.ret = Err(kept)]

\* The end of a loop iteration that did not return: last_error has been set;
\* sleep unless this was the last attempt, and after the last attempt leave
\* the loop and return last_error.
EndOfAttempt(fm, e) ==
    IF fm.attempt < max_retries
    THEN [fm EXCEPT !.pc = "sleep", !.last_error = e,
                    !.delays = Append(@, calculate_delay(fm.attempt))]
    ELSE [fm EXCEPT !.pc = "ret", !.last_error = e,
                    !.ret = Err(IF e = NoError
                                THEN ParseError("Unknown network error", "None")
                                ELSE e)]

\* fetch_content: the match on send().await, up to response.text().
fetch_content_send(fm, o) ==
    IF o.transport # "none"
    THEN EndOfAttempt(Noted(fm, Attempt(o, "none", "none")),
                      transport_error(o.transport, fm.url))
    ELSE IF is_success(o.status)
    THEN Noted([fm EXCEPT !.pc = "body"], Attempt(o, "pending", "none"))
    ELSE IF is_client_error(o.status)
    THEN ReturnErr(Noted(fm, Attempt(o, "none", "none")), status_error(o.status, fm.url))
    ELSE EndOfAttempt(Noted(fm, Attempt(o, "none", "none")), status_error(o.status, fm.url))

\* download_file returning at once on 404 only.
download_file_send_404_only(fm, o) ==
    IF o.transport # "none"
    THEN EndOfAttempt(Noted(fm, Attempt(o, "none", "none")),
                      transport_error(o.transport, fm.url))
    ELSE IF is_success(o.status)
    THEN Noted([fm EXCEPT !.pc = "body"], Attempt(o, "pending", "none"))
    ELSE IF o.status = 404
    THEN ReturnErr(Noted(fm, Attempt(o, "none", "none")), status_error(o.status, fm.url))
    ELSE EndOfAttempt(Noted(fm, Attempt(o, "none", "none")), status_error(o.status, fm.url))

\* download_file opening the destination as soon as a 2xx status arrives and
\* streaming the body into it.
download_file_send_streaming(fm, o) ==
    IF o.transport # "none"
    THEN EndOfAttempt(Noted(fm, Attempt(o, "none", "none")),
                      transport_error(o.transport, fm.url))
    ELSE IF is_success(o.status)
    THEN Noted([fm EXCEPT !.pc = "body", !.wrote = TRUE], Attempt(o, "pending", "none"))
    ELSE IF is_client_error(o.status)
    THEN ReturnErr(Noted(fm, Attempt(o, "none", "none")), status_error(o.status, fm.url))
    ELSE EndOfAttempt(Noted(fm, Attempt(o, "none", "none")), status_error(o.status, fm.url))

\* download_file: the match on send().await, up to response.bytes().
download_file_send(fm, o) ==
    IF o.transport # "none"
    THEN EndOfAttempt(Noted(fm, Attempt(o, "none", "none")),
                      transport_error(o.transport, fm.url))
    ELSE IF is_success(o.status)
    THEN Noted([fm EXCEPT !.pc = "body"], Attempt(o, "pending", "none"))
    ELSE IF is_client_error(o.status)
    THEN ReturnErr(Noted(fm, Attempt(o, "none", "none")), status_error(o.status, fm.url))
    ELSE EndOfAttempt(Noted(fm, Attempt(o, "none", "none")), status_error(o.status, fm.url))

WithLast(fm, field, v) ==
    [fm EXCEPT !.hist = [@ EXCEPT ![Len(@)] = [@ EXCEPT ![field] = v]]]

\* fetch_content: response.text().await read the content c, or failed.
fetch_content_body(fm, read, c) ==
    IF ~read
    THEN EndOfAttempt(WithLast(fm, "body", "error"), NetworkError("body"))
    ELSE [WithLast(fm, "body", "ok") EXCEPT !.pc = "ret", !.ret = Ok(c)]

\* download_file: response.bytes().await read a body of n bytes, or failed.
download_file_body(fm, read, n) ==
    IF ~read
    THEN EndOfAttempt(WithLast(fm, "body", "error"), NetworkError("body"))
    ELSE [WithLast(fm, "body", "ok") EXCEPT !.pc = "mkdir", !.bytes_len = n]

\* A download_file that treats a failed create_dir_all as a failed attempt.
download_file_mkdir_retrying(fm, ok) ==
    IF ok
    THEN [fm EXCEPT !.pc = "write"]
    ELSE EndOfAttempt(WithLast(fm, "io", "mkdir"), IoError("create_dir_all"))

\* download_file: fs::create_dir_all(parent).await?
download_file_mkdir(fm, ok) ==
    IF ok
    THEN [fm EXCEPT !.pc = "write"]
    ELSE ReturnErr(WithLast(fm, "io", "mkdir"), IoError("create_dir_all"))

\* download_file returning the error of an earlier attempt after its write.
download_file_write_stale(fm, ok) ==
    IF ok
    THEN [WithLast(fm, "io", "ok") EXCEPT
            !.pc = "ret",
            !.ret = IF fm.last_error = NoError THEN Ok(fm.bytes_len) ELSE Err(fm.last_error),
            !.wrote = TRUE]
    ELSE ReturnErr(WithLast(fm, "io", "write"), IoError("write"))

\* download_file: fs::write(local_path, bytes).await?; return Ok(bytes_len)
download_file_write(fm, ok) ==
    IF ok
    THEN [WithLast(fm, "io", "ok") EXCEPT !.pc = "ret", !.ret = Ok(fm.bytes_len), !.wrote = TRUE]
    ELSE ReturnErr(WithLast(fm, "io", "write"), IoError("write"))

\* sleep(delay).await is over: the next iteration issues its GET.
AfterSleep(fm) ==
    [fm EXCEPT !.pc = "get", !.attempt = @ + 1, !.requests = @ + 1]

\* ------------------------------------------------------------------ parser

\* parse_llms_txt over the lines' kinds: blank lines and comments are skipped,
\* a line extract_file_path rejects is skipped, a reference that does not
\* resolve fails the whole parse, every other reference is pushed in order.
RECURSIVE parse_lines(_, _)
parse_lines(lines, file_urls) ==
    IF lines = <<>> THEN Ok(file_urls)
    ELSE LET line == Head(lines) IN
         IF line \in {"", "#"} THEN parse_lines(Tail(lines), file_urls)
         ELSE IF line = "-" THEN parse_lines(Tail(lines), file_urls)
         ELSE IF line \notin Urls THEN Err(ParseError("Failed to resolve URL", line))
         ELSE parse_lines(Tail(lines), Append(file_urls, line))

parse_llms_txt(content) == parse_lines(content, <<>>)

\* ------------------------------------------------------------- manifest text

\* A manifest text is a sequence of characters.  The characters are the ones
\* the parser and the URL library tell apart: whitespace, the line break,
\* '#', '-', '.', '/', ':', ')' and a letter; "](" and "http:" stand for
\* these runs of characters, which occur only as a whole.
Chars == {" ", "\n", "#", "-", "](", ")", ".", "/", ":", "x", "http:"}

\* Longest manifest text, in characters.
MaxChars == 4

Texts == UNION {[1..n -> Chars] : n \in 0..MaxChars}

\* Longer manifest texts: an accepted line followed by a line whose
\* reference "//:." does not resolve (an authority with an empty host).
SampleTexts == {<<".", "\n", "/", "/", ":", ".">>}

\* The base_url validate_url hands to process_url (no trailing slash): a
\* site root and a location below it.
BaseUrls == {<<"http:", "/", "/", "b">>,
             <<"http:", "/", "/", "b", "/", "d", "/", "e">>}

\* str::contains, str::starts_with, str::find (0 for None) of one character
\* or one of a set of characters.
contains(s, c) == \E i \in 1..Len(s) : s[i] = c

starts_with(s, c) == s # <<>> /\ s[1] = c

find_any(s, C) ==
    IF \E i \in 1..Len(s) : s[i] \in C
    THEN CHOOSE i \in 1..Len(s) : s[i] \in C /\ \A j \in 1..(i - 1) : s[j] \notin C
    ELSE 0

find(s, c) == find_any(s, {c})

\* str::trim
RECURSIVE trim_start(_)
trim_start(s) == IF s # <<>> /\ Head(s) = " " THEN trim_start(Tail(s)) ELSE s

RECURSIVE trim_end(_)
trim_end(s) ==
    IF s # <<>> /\ s[Len(s)] = " " THEN trim_end(SubSeq(s, 1, Len(s) - 1)) ELSE s

\* A trim that strips the end only.
trim_end_only(s) == trim_end(s)

trim(s) == trim_end(trim_start(s))

\* str::split(c): the pieces between the occurrences of c.
RECURSIVE split(_, _)
split(s, c) ==
    IF s = <<>> THEN << <<>> >>
    ELSE LET rest == split(Tail(s), c) IN
         IF Head(s) = c THEN << <<>> >> \o rest
         ELSE << <<Head(s)>> \o Head(rest) >> \o Tail(rest)

\* str::lines: the pieces between line breaks, without a last empty piece.
lines(content) ==
    LET pieces == split(content, "\n") IN
    IF pieces[Len(pieces)] = <<>> THEN SubSeq(pieces, 1, Len(pieces) - 1) ELSE pieces

None == [some |-> FALSE, val |-> <<>>]

Some(v) == [some |-> TRUE, val |-> v]

\* extract_file_path trying the plain path before the markdown link.
extract_file_path_plain_first(line) ==
    LET trimmed == trim(line)
        start   == find(trimmed, "](")
        after   == SubSeq(trimmed, start + 1, Len(trimmed))
        end     == find(after, ")")
        path    == SubSeq(after, 1, end - 1)
    IN  IF contains(trimmed, ".") /\ ~starts_with(trimmed, "-") THEN Some(trimmed)
        ELSE IF start # 0 /\ end # 0 /\ contains(path, ".") THEN Some(path)
        ELSE None

\* extract_file_path: the text between the first "](" and the next ')' if it
\* contains a '.', else the whole trimmed line if it contains a '.' and does
\* not start with '-'.  (path.ends_with(".md") implies path.contains('.').)
extract_file_path(line) ==
    LET trimmed == trim(line)
        start   == find(trimmed, "](")
        after   == SubSeq(trimmed, start + 1, Len(trimmed))
        end     == find(after, ")")
        path    == SubSeq(after, 1, end - 1)
    IN  IF start # 0 /\ end # 0 /\ contains(path, ".") THEN Some(path)
        ELSE IF contains(trimmed, ".") /\ ~starts_with(trimmed, "-") THEN Some(trimmed)
        ELSE None

\* --------------------------------------------------------------------- URLs

\* Url::parse and Url::join of the url crate (the WHATWG URL parser) over
\* the characters above.  A parsed URL is its scheme with the colon, its host
\* if it has one, its path as segments (or as the raw text of an opaque
\* path), and its fragment if it has one.
NotUrl == [valid |-> FALSE]

IsAlpha(c) == c \in {"x", "http", "b", "d", "e", "X254"}

IsSchemeChar(c) == IsAlpha(c) \/ c \in {"-", "."}

ColonChars == {":", "http:"}

\* Characters a host may hold (no digit occurs, so no port is ever valid).
IsHostChar(c) == IsAlpha(c) \/ c \in {"-", ".", ")"}

\* The position of the colon that ends the scheme, 0 when the input does not
\* start with a scheme: a letter, then letters, '-' and '.', then ':'.
scheme_end(s) ==
    LET k == find_any(s, ColonChars) IN
    IF k = 0 THEN 0
    ELSE IF k = 1 THEN (IF s[1] = "http:" THEN 1 ELSE 0)
    ELSE IF IsAlpha(s[1]) /\ \A j \in 2..(k - 1) : IsSchemeChar(s[j]) THEN k
    ELSE 0

is_special(scheme) == scheme = <<"http:">>

before_fragment(s) ==
    LET f == find(s, "#") IN IF f = 0 THEN s ELSE SubSeq(s, 1, f - 1)

fragment_of(s) ==
    LET f == find(s, "#") IN
    IF f = 0 THEN None ELSE Some(SubSeq(s, f + 1, Len(s)))

\* A percent-encoding that encodes the '%' of an encoded space again.
percent_encode_again(s) ==
    [i \in 1..Len(s) |-> IF s[i] = " " THEN "%20"
                         ELSE IF s[i] = "%20" THEN "%2520" ELSE s[i]]

\* Percent-encoding of a path segment or a fragment: the space.
percent_encode(s) == [i \in 1..Len(s) |-> IF s[i] = " " THEN "%20" ELSE s[i]]

RECURSIVE skip_slashes(_)
skip_slashes(s) == IF s # <<>> /\ Head(s) = "/" THEN skip_slashes(Tail(s)) ELSE s

\* The path state: the segments of `input` (split at '/') pushed onto the
\* segments `acc`; "." is dropped, ".." drops the segment before it, and
\* either leaves an empty last segment when it is the last one.
RECURSIVE parse_path(_, _)
parse_path(acc, segs) ==
    IF segs = <<>> THEN acc
    ELSE LET seg  == Head(segs)
             last == Len(segs) = 1
             popped == IF acc = <<>> THEN acc ELSE SubSeq(acc, 1, Len(acc) - 1)
         IN  IF seg = <<".", ".">>
             THEN parse_path(IF last THEN Append(popped, <<>>) ELSE popped, Tail(segs))
             ELSE IF seg = <<".">>
             THEN parse_path(IF last THEN Append(acc, <<>>) ELSE acc, Tail(segs))
             ELSE parse_path(Append(acc, percent_encode(seg)), Tail(segs))

\* The host state: the authority up to its first ':' is the host, what
\* follows is the port.  Fails on a port that is not a number, on an empty
\* host where one is required, and on a character a host cannot hold.
parse_host(authority, special) ==
    LET c    == find_any(authority, ColonChars)
        host == IF c = 0 THEN authority
                ELSE SubSeq(authority, 1, c - 1)
                        \o (IF authority[c] = "http:" THEN <<"http">> ELSE <<>>)
        port == IF c = 0 THEN <<>> ELSE SubSeq(authority, c + 1, Len(authority))
    IN  IF port # <<>> THEN None
        ELSE IF host = <<>> /\ (special \/ c # 0) THEN None
        ELSE IF \E i \in 1..Len(host) : ~IsHostChar(host[i]) THEN None
        ELSE Some(host)

\* The authority and path of a URL with a host: `rest` is the input after
\* the slashes that introduce the authority.
parse_authority(scheme, rest, frag) ==
    LET body      == before_fragment(rest)
        slash     == find(body, "/")
        authority == IF slash = 0 THEN body ELSE SubSeq(body, 1, slash - 1)
        host      == parse_host(authority, is_special(scheme))
        segs      == IF slash = 0
                     THEN (IF is_special(scheme) THEN << <<>> >> ELSE <<>>)
                     ELSE parse_path(<<>>, split(SubSeq(body, slash + 1, Len(body)), "/"))
    IN  IF ~host.some THEN NotUrl
        ELSE [valid |-> TRUE, scheme |-> scheme, has_host |-> TRUE, host |-> host.val,
              opaque |-> FALSE, path |-> segs, fragment |-> frag]

encoded_fragment(s) ==
    LET f == fragment_of(s) IN IF f.some THEN Some(percent_encode(f.val)) ELSE None

starts_with_two_slashes(s) == Len(s) >= 2 /\ s[1] = "/" /\ s[2] = "/"

\* An input with a scheme (ending at position k).  http: any number of
\* slashes, then the authority.  Another scheme: "//" introduces an
\* authority, "/" a path, and anything else is an opaque path kept as it is.
parse_absolute(s, k) ==
    LET scheme == SubSeq(s, 1, k)
        rest   == SubSeq(s, k + 1, Len(s))
        body   == before_fragment(rest)
        frag   == encoded_fragment(rest)
    IN  IF is_special(scheme) THEN parse_authority(scheme, skip_slashes(body), frag)
        ELSE IF starts_with_two_slashes(body)
        THEN parse_authority(scheme, SubSeq(body, 3, Len(body)), frag)
        ELSE IF starts_with(body, "/")
        THEN [valid |-> TRUE, scheme |-> scheme, has_host |-> FALSE, host |-> <<>>,
              opaque |-> FALSE, path |-> parse_path(<<>>, split(Tail(body), "/")),
              fragment |-> frag]
        ELSE [valid |-> TRUE, scheme |-> scheme, has_host |-> FALSE, host |-> <<>>,
              opaque |-> TRUE, path |-> body, fragment |-> frag]

\* An input without a scheme, against an http base: "//" introduces an
\* authority, "/" a path from the root, nothing (or a fragment only) keeps
\* the base's path, and anything else replaces the base's last segment.
parse_relative(base, s) ==
    LET body == before_fragment(s)
        frag == encoded_fragment(s)
    IN  IF starts_with_two_slashes(body)
        THEN parse_authority(base.scheme, skip_slashes(body), frag)
        ELSE IF starts_with(body, "/")
        THEN [base EXCEPT !.path = parse_path(<<>>, split(Tail(body), "/")),
                          !.fragment = frag]
        ELSE IF body = <<>>
        THEN [base EXCEPT !.fragment = frag]
        ELSE [base EXCEPT !.path = parse_path(SubSeq(base.path, 1, Len(base.path) - 1),
                                              split(body, "/")),
                          !.fragment = frag]

\* Url::parse(input)
Url_parse(input) ==
    LET s == trim(input)
        k == scheme_end(s)
    IN  IF k = 0 THEN NotUrl ELSE parse_absolute(s, k)

\* base.join(input): an input that repeats the base's http scheme without
\* "//" is taken as relative to the base.
join(base, input) ==
    LET s    == trim(input)
        k    == scheme_end(s)
        rest == SubSeq(s, k + 1, Len(s))
    IN  IF k = 0 THEN parse_relative(base, s)
        ELSE IF /\ SubSeq(s, 1, k) = base.scheme
                /\ is_special(base.scheme)
                /\ ~starts_with_two_slashes(rest)
        THEN parse_relative(base, rest)
        ELSE parse_absolute(s, k)

RECURSIVE path_to_string(_)
path_to_string(segs) ==
    IF segs = <<>> THEN <<>> ELSE <<"/">> \o Head(segs) \o path_to_string(Tail(segs))

\* Url::to_string: the serialization.  A path that starts with "//" under a
\* URL without a host is written after "/.".
to_string(u) ==
    u.scheme
        \o (IF u.has_host THEN <<"/", "/">> \o u.host
            ELSE IF ~u.opaque /\ Len(u.path) >= 2 /\ u.path[1] = <<>> THEN <<"/", ".">>
            ELSE <<>>)
        \o (IF u.opaque THEN u.path ELSE path_to_string(u.path))
        \o (IF u.fragment.some THEN <<"#">> \o u.fragment.val ELSE <<>>)

\* resolve_url: an absolute URL as it is parsed and serialized, anything else
\* joined to the base; ParseError naming the path when the join fails.
resolve_url(path, base) ==
    LET absolute_url == Url_parse(path) IN
    IF absolute_url.valid THEN Ok(to_string(absolute_url))
    ELSE LET resolved == join(base, path) IN
         IF resolved.valid THEN Ok(to_string(resolved))
         ELSE Err(ParseError("Failed to resolve URL", path))

\* A loop that drops a reference that does not resolve and goes on.
RECURSIVE parse_text_lines_skip_unresolved(_, _, _)
parse_text_lines_skip_unresolved(ls, base, file_urls) ==
    IF ls = <<>> THEN Ok(file_urls)
    ELSE LET trimmed == trim(Head(ls)) IN
         IF trimmed = <<>> \/ starts_with(trimmed, "#")
         THEN parse_text_lines_skip_unresolved(Tail(ls), base, file_urls)
         ELSE LET file_path == extract_file_path(trimmed) IN
              IF ~file_path.some
              THEN parse_text_lines_skip_unresolved(Tail(ls), base, file_urls)
              ELSE LET resolved_url == resolve_url(file_path.val, base) IN
                   IF ~resolved_url.ok
                   THEN parse_text_lines_skip_unresolved(Tail(ls), base, file_urls)
                   ELSE parse_text_lines_skip_unresolved(Tail(ls), base,
                                                         Append(file_urls, resolved_url.val[1]))

\* A loop that pushes a location only when the list does not hold it yet.
RECURSIVE parse_text_lines_dedup(_, _, _)
parse_text_lines_dedup(ls, base, file_urls) ==
    IF ls = <<>> THEN Ok(file_urls)
    ELSE LET trimmed == trim(Head(ls)) IN
         IF trimmed = <<>> \/ starts_with(trimmed, "#")
         THEN parse_text_lines_dedup(Tail(ls), base, file_urls)
         ELSE LET file_path == extract_file_path(trimmed) IN
              IF ~file_path.some THEN parse_text_lines_dedup(Tail(ls), base, file_urls)
              ELSE LET resolved_url == resolve_url(file_path.val, base) IN
                   IF ~resolved_url.ok THEN resolved_url
                   ELSE IF contains(file_urls, resolved_url.val[1])
                   THEN parse_text_lines_dedup(Tail(ls), base, file_urls)
                   ELSE parse_text_lines_dedup(Tail(ls), base,
                                               Append(file_urls, resolved_url.val[1]))

\* parse_llms_txt over the text: the loop over content.lines().
RECURSIVE parse_text_lines(_, _, _)
parse_text_lines(ls, base, file_urls) ==
    IF ls = <<>> THEN Ok(file_urls)
    ELSE LET trimmed == trim(Head(ls)) IN
         IF trimmed = <<>> \/ starts_with(trimmed, "#")
         THEN parse_text_lines(Tail(ls), base, file_urls)
         ELSE LET file_path == extract_file_path(trimmed) IN
              IF ~file_path.some THEN parse_text_lines(Tail(ls), base, file_urls)
              ELSE LET resolved_url == resolve_url(file_path.val, base) IN
                   IF ~resolved_url.ok THEN resolved_url
                   ELSE parse_text_lines(Tail(ls), base,
                                         Append(file_urls, resolved_url.val[1]))

parse_llms_txt_text(content, base_url) ==
    LET base == Url_parse(base_url) IN
    IF ~base.valid THEN Err(InvalidUrl("Invalid base URL"))
    ELSE parse_text_lines(lines(content), base, <<>>)

\* ------------------------------------------------------------- path mapper

\* sanitize_filename truncates a name to this many bytes.
MaxFilenameLen == 255

\* The bytes a character of the model stands for: "X254" is a run of 254
\* letters, the others are the runs they spell (one byte when not listed).
ByteLen(c) ==
    CASE c = "X254" -> 254
      [] c = "%20" -> 3
      [] c = "http" -> 4
      [] c = "](" -> 2
      [] c = "unnamed" -> 7
      [] c = "index.html" -> 10
      [] OTHER -> 1

\* The characters sanitize_filename replaces that a URL can hold: ':' and
\* '/' (the '<', '>', '"', '|', '?', '*', '\' and control characters
\* do not occur in the texts of the model).
invalid_chars == {":", "/"}

\* for ch in filename.chars(): an invalid character becomes '_'.
RECURSIVE replace_invalid(_)
replace_invalid(s) ==
    IF s = <<>> THEN <<>>
    ELSE (IF Head(s) \in invalid_chars THEN <<"_">>
          ELSE IF Head(s) = "http:" THEN <<"http", "_">>
          ELSE <<Head(s)>>) \o replace_invalid(Tail(s))

\* str::trim_matches
RECURSIVE trim_matches(_, _)
trim_matches(s, C) ==
    IF s # <<>> /\ Head(s) \in C THEN trim_matches(Tail(s), C)
    ELSE IF s # <<>> /\ s[Len(s)] \in C THEN trim_matches(SubSeq(s, 1, Len(s) - 1), C)
    ELSE s

\* String::truncate(room): the characters that fit; "cut" is what is left
\* of a run that does not fit as a whole.
RECURSIVE truncate(_, _)
truncate(s, room) ==
    IF s = <<>> THEN <<>>
    ELSE IF ByteLen(Head(s)) <= room
    THEN <<Head(s)>> \o truncate(Tail(s), room - ByteLen(Head(s)))
    ELSE IF room > 0 THEN <<"cut">>
    ELSE <<>>

\* sanitize_filename: replace, name an empty result, trim dots and spaces,
\* name an empty result, truncate.
sanitize_filename(filename) ==
    LET replaced == replace_invalid(filename)
        named    == IF replaced = <<>> THEN <<"unnamed">> ELSE replaced
        trimmed  == trim_matches(named, {".", " "})
        renamed  == IF trimmed = <<>> THEN <<"unnamed">> ELSE trimmed
    IN  truncate(renamed, MaxFilenameLen)

\* The --output directory, as path components.
OutputDir == << <<"out">> >>

\* Url::path
Url_path(u) == IF u.opaque THEN u.path ELSE path_to_string(u.path)

\* create_local_directory from the parsed URL on, up to fs::create_dir_all:
\* the directory named after the host (no URL of the model has a port).
domain_dir(parsed_url, output_dir) ==
    IF ~parsed_url.valid THEN Err(InvalidUrl("Failed to parse URL"))
    ELSE IF ~parsed_url.has_host THEN Err(InvalidUrl("URL must have a valid host"))
    ELSE Ok(Append(output_dir, sanitize_filename(parsed_url.host)))

create_local_directory(url, output_dir) == domain_dir(Url_parse(url), output_dir)

IsNonEmpty(component) == component # <<>>

sanitize_all(components) ==
    [k \in 1..Len(components) |-> sanitize_filename(components[k])]

\* str::strip_prefix(c).unwrap_or(s)
strip_prefix(s, c) == IF starts_with(s, c) THEN Tail(s) ELSE s

\* get_local_file_path from clean_path on; created tells whether
\* fs::create_dir_all(parent), which the root path does not reach, succeeds.
local_path_of(clean_path, base_dir, created) ==
    IF clean_path = <<>> \/ clean_path = <<"/">>
    THEN Ok(Append(base_dir, <<"index.html">>))
    ELSE IF ~created THEN Err(IoError("create_dir_all"))
    ELSE Ok(base_dir \o sanitize_all(SelectSeq(split(clean_path, "/"), IsNonEmpty)))

\* get_local_file_path from the parsed URL on.
path_of_url(parsed_url, base_dir, created) ==
    IF ~parsed_url.valid THEN Err(InvalidUrl("Failed to parse URL"))
    ELSE local_path_of(strip_prefix(Url_path(parsed_url), "/"), base_dir, created)

get_local_file_path(url, base_dir, created) ==
    path_of_url(Url_parse(url), base_dir, created)

\* -------------------------------------------------------------- aggregator

NewResult == [successful |-> <<>>, failed |-> <<>>, total_files |-> 0, total_bytes |-> 0]

\* add_success keeping the byte count of the last success only.
add_success_last_bytes(r, url, local_path, bytes) ==
    [r EXCEPT !.successful = Append(@, <<url, local_path>>),
              !.total_files = @ + 1,
              !.total_bytes = bytes]

add_success(r, url, local_path, bytes) ==
    [r EXCEPT !.successful = Append(@, <<url, local_path>>),
              !.total_files = @ + 1,
              !.total_bytes = @ + bytes]

\* add_failure recording a URL once only.
add_failure_once(r, url, error) ==
    IF \E k \in 1..Len(r.failed) : r.failed[k][1] = url
    THEN r
    ELSE [r EXCEPT !.failed = Append(@, <<url, error>>),
                   !.total_files = @ + 1]

\* The failure is kept as the error it was formatted from.
add_failure(r, url, error) ==
    [r EXCEPT !.failed = Append(@, <<url, error>>),
              !.total_files = @ + 1]

all_successful(r) == r.failed = <<>> /\ r.successful # <<>>

\* Display for DownloadError: the message as pieces of text, cut so that
\* every text categorize_error searches for is a piece of its own wherever
\* the message holds it. A failed body read is shown by the last arm of
\* NetworkError and an I/O error by the last arm of IoError.
Display(e) ==
    CASE e.kind = "NetworkError" ->
           IF e.cause = "connect"
           THEN <<"Connection", " failed: Unable to connect to the server.">>
           ELSE <<"Network", " error: ", e.cause>>
      [] e.kind = "IoError" -> <<"File system error: ", e.cause>>
      [] e.kind = "InvalidUrl" -> <<"Invalid URL: ", e.cause>>
      [] e.kind = "ParseError" -> <<"Parse error: ", e.url>>
      [] e.kind = "HttpError" ->
           IF e.status = 404
           THEN <<"File ", "not found", " (", "404", "): The file at ", e.url,
                  " does not exist on the server.">>
           ELSE IF e.status = 403
           THEN <<"Access forbidden (", "403", "): You don't have ", "permission",
                  " to access ", e.url, ".">>
           ELSE IF e.status = 401
           THEN <<"Unauthorized (401): Authentication required to access ", e.url, ".">>
           ELSE IF e.status >= 500 /\ e.status <= 599
           THEN <<"Server error (", ToString(e.status),
                  "): The server encountered an error while processing ", e.url, ".">>
           ELSE <<"HTTP error (", ToString(e.status), "): Request to ", e.url, " failed.">>
      [] e.kind = "FileNotFound" ->
           <<"File ", "not found", ": ", e.url, " is not available on the server.">>
      [] e.kind = "Timeout" ->
           <<"Timeout", ": Request to ", e.url, " took too long.">>
      [] OTHER -> <<>>

\* categorize_error: the first group of texts the message contains.
categorize_error(error) ==
    IF contains(error, "404") \/ contains(error, "not found") \/ contains(error, "Not Found")
    THEN "not_found"
    ELSE IF contains(error, "timeout") \/ contains(error, "Timeout")
    THEN "timeout"
    ELSE IF contains(error, "Permission denied") \/ contains(error, "permission")
    THEN "permission"
    ELSE IF contains(error, "Network") \/ contains(error, "Connection")
    THEN "network"
    ELSE IF contains(error, "403") \/ contains(error, "Forbidden")
    THEN "forbidden"
    ELSE IF contains(error, "500") \/ contains(error, "502") \/ contains(error, "503")
    THEN "server_error"
    ELSE "other"

\* The category add_failure stores with the message of error e.
error_type(e) == categorize_error(Display(e))

\* ------------------------------------------------------------------- state

VARIABLES
    fr,             \* the fetch frames
    pc,             \* where process_url is
    max_concurrent, \* the --threads argument
    file_urls,      \* the parsed manifest
    base_dir,       \* the directory create_local_directory made ("" before)
    permits,        \* free permits of the semaphore
    tpc,            \* where each download task is
    local_path,     \* each task's destination
    out,            \* each finished task's output (file_url, result)
    result,         \* the DownloadResult being built
    idx,            \* the position of the loop over download_results
    run_ret,        \* what process_url returned
    files           \* the files written, each with the task that wrote it

vars == <<fr, pc, max_concurrent, file_urls, base_dir, permits, tpc, local_path,
          out, result, idx, run_ret, files>>

Frames == 0..MaxLines

Tasks == 1..MaxLines

NoOutput == [url |-> "", res |-> NoResult]

\* The destination of a reference under the mirror directory.
LocalPath(base, url) == <<base, url>>

NumTasks == Len(file_urls)

\* -------------------------------------------------------- fetch steps

\* A task end that keeps its permit.
TaskEndsKeepsPermit(i, res) ==
    /\ out' = [out EXCEPT ![i] = [url |-> file_urls[i], res |-> res]]
    /\ permits' = permits
    /\ tpc' = [tpc EXCEPT ![i] = "finished"]

\* A task end that drops the permit only when the download succeeded.
TaskEndsLeaksOnError(i, res) ==
    /\ out' = [out EXCEPT ![i] = [url |-> file_urls[i], res |-> res]]
    /\ permits' = IF res.ok THEN permits + 1 ELSE permits
    /\ tpc' = [tpc EXCEPT ![i] = "finished"]

\* The end of task i's async block with result res: the permit is dropped
\* and (file_url, result) is the task's output.
TaskEnds(i, res) ==
    /\ out' = [out EXCEPT ![i] = [url |-> file_urls[i], res |-> res]]
    /\ permits' = permits + 1
    /\ tpc' = [tpc EXCEPT ![i] = "finished"]

\* Frame f goes on as fm.  A call made by process_url itself (frame 0) that
\* returns stays at "ret" until its caller takes the result.  A download
\* task runs from the return of download_file to the end of its async block
\* without another await, so the step that returns also ends the task with
\* Ok((local_path, bytes)) or the error.
Resume(f, fm) ==
    IF f # 0 /\ fm.pc = "ret"
    THEN /\ TaskEnds(f, IF fm.ret.ok THEN Ok(<<local_path[f], fm.ret.val[1]>>) ELSE fm.ret)
         /\ fr' = [fr EXCEPT ![f] = IdleFrame]
         /\ UNCHANGED <<pc, max_concurrent, file_urls, base_dir, local_path,
                        result, idx, run_ret>>
    ELSE /\ fr' = [fr EXCEPT ![f] = fm]
         /\ UNCHANGED <<pc, max_concurrent, file_urls, base_dir, permits, tpc,
                        local_path, out, result, idx, run_ret>>

\* send().await of frame f resolves with o.
Respond(f, o) ==
    /\ fr[f].pc = "get"
    /\ Resume(f, IF fr[f].fn = "fetch_content"
                 THEN fetch_content_send(fr[f], o)
                 ELSE download_file_send(fr[f], o))
    /\ UNCHANGED files

\* text().await or bytes().await of frame f resolves.
ReadBody(f, read, c, n) ==
    /\ fr[f].pc = "body"
    /\ Resume(f, IF fr[f].fn = "fetch_content"
                 THEN fetch_content_body(fr[f], read, c)
                 ELSE download_file_body(fr[f], read, n))
    /\ UNCHANGED files

\* create_dir_all(parent).await of frame f resolves.
CreateDirAll(f, ok) ==
    /\ fr[f].pc = "mkdir"
    /\ Resume(f, download_file_mkdir(fr[f], ok))
    /\ UNCHANGED files

\* fs::write(local_path, bytes).await of frame f resolves.
WriteFile(f, ok) ==
    /\ fr[f].pc = "write"
    /\ Resume(f, download_file_write(fr[f], ok))
    /\ files' = IF ok THEN files \cup {<<f, local_path[f]>>} ELSE files

\* The backoff sleep of frame f is over.
Wake(f) ==
    /\ fr[f].pc = "sleep"
    /\ Resume(f, AfterSleep(fr[f]))
    /\ UNCHANGED files

\* ------------------------------------------------------------ process_url

\* A failed manifest fetch taken for an empty manifest.
ManifestFetchFailedAsEmpty ==
    /\ pc = "fetch_manifest"
    /\ fr[0].pc = "ret"
    /\ ~fr[0].ret.ok
    /\ run_ret' = Ok(result)
    /\ pc' = "returned"
    /\ fr' = [fr EXCEPT ![0] = IdleFrame]
    /\ UNCHANGED <<max_concurrent, file_urls, base_dir, permits, tpc, local_path,
                   out, result, idx, files>>

\* fetch_content returned an error: process_url returns ParseError.
ManifestFetchFailed ==
    /\ pc = "fetch_manifest"
    /\ fr[0].pc = "ret"
    /\ ~fr[0].ret.ok
    /\ run_ret' = Err(ParseError("Could not find or access llms.txt", fr[0].ret.err.kind))
    /\ pc' = "returned"
    /\ fr' = [fr EXCEPT ![0] = IdleFrame]
    /\ UNCHANGED <<max_concurrent, file_urls, base_dir, permits, tpc, local_path,
                   out, result, idx, files>>

\* fetch_content returned the content: parse it; a parse error is returned,
\* an empty list returns the empty result.
ParseManifest ==
    /\ pc = "fetch_manifest"
    /\ fr[0].pc = "ret"
    /\ fr[0].ret.ok
    /\ LET parsed == parse_llms_txt(fr[0].ret.val[1]) IN
         IF ~parsed.ok
         THEN /\ run_ret' = Err(parsed.err)
              /\ pc' = "returned"
              /\ UNCHANGED file_urls
         ELSE IF parsed.val[1] = <<>>
         THEN /\ run_ret' = Ok(result)
              /\ pc' = "returned"
              /\ UNCHANGED file_urls
         ELSE /\ file_urls' = parsed.val[1]
              /\ pc' = "mkdir"
              /\ UNCHANGED run_ret
    /\ fr' = [fr EXCEPT ![0] = IdleFrame]
    /\ UNCHANGED <<max_concurrent, base_dir, permits, tpc, local_path,
                   out, result, idx, files>>

\* create_local_directory(base_url, output_dir)?: fs::create_dir_all succeeds
\* or fails, and a failure is returned.
CreateLocalDirectory(ok) ==
    /\ pc = "mkdir"
    /\ IF ok
       THEN /\ base_dir' = "dir"
            /\ pc' = "spawn"
            /\ UNCHANGED run_ret
       ELSE /\ run_ret' = Err(IoError("create_dir_all"))
            /\ pc' = "returned"
            /\ UNCHANGED base_dir
    /\ UNCHANGED <<fr, max_concurrent, file_urls, permits, tpc, local_path,
                   out, result, idx, files>>

\* A fan-out that leaves out the last entry of file_urls.
SpawnTasksButLast ==
    /\ pc = "spawn"
    /\ permits' = max_concurrent
    /\ tpc' = [i \in Tasks |-> IF i < NumTasks THEN "waiting" ELSE "none"]
    /\ pc' = "join"
    /\ UNCHANGED <<fr, max_concurrent, file_urls, base_dir, local_path,
                   out, result, idx, run_ret, files>>

\* Semaphore::new(max_concurrent) and one tokio::spawn per entry of file_urls.
SpawnTasks ==
    /\ pc = "spawn"
    /\ permits' = max_concurrent
    /\ tpc' = [i \in Tasks |-> IF i <= NumTasks THEN "waiting" ELSE "none"]
    /\ pc' = "join"
    /\ UNCHANGED <<fr, max_concurrent, file_urls, base_dir, local_path,
                   out, result, idx, run_ret, files>>

\* Acquire without the semaphore's wait for a free permit.
AcquireUnguarded(i) ==
    /\ tpc[i] = "waiting"
    /\ permits' = permits - 1
    /\ tpc' = [tpc EXCEPT ![i] = "mapping"]
    /\ UNCHANGED <<fr, pc, max_concurrent, file_urls, base_dir, local_path,
                   out, result, idx, run_ret, files>>

\* Task i: semaphore.acquire().await returns a permit.
Acquire(i) ==
    /\ tpc[i] = "waiting"
    /\ permits > 0
    /\ permits' = permits - 1
    /\ tpc' = [tpc EXCEPT ![i] = "mapping"]
    /\ UNCHANGED <<fr, pc, max_concurrent, file_urls, base_dir, local_path,
                   out, result, idx, run_ret, files>>

\* Task i: get_local_file_path(file_url, base_dir)?; its create_dir_all
\* succeeds and download_file starts, or fails and the task ends.
MapPath(i, ok) ==
    /\ tpc[i] = "mapping"
    /\ IF ok
       THEN /\ local_path' = [local_path EXCEPT ![i] = LocalPath(base_dir, file_urls[i])]
            /\ fr' = [fr EXCEPT ![i] = StartFrame("download_file", file_urls[i])]
            /\ tpc' = [tpc EXCEPT ![i] = "running"]
            /\ UNCHANGED <<out, permits>>
       ELSE /\ TaskEnds(i, Err(IoError("create_dir_all")))
            /\ UNCHANGED <<fr, local_path>>
    /\ UNCHANGED <<pc, max_concurrent, file_urls, base_dir, result, idx, run_ret, files>>

\* A join that returns at the first failed task, as try_join_all would.
JoinAllFailFast ==
    /\ pc = "join"
    /\ \/ \A i \in 1..NumTasks : tpc[i] = "finished"
       \/ \E i \in 1..NumTasks : tpc[i] = "finished" /\ ~out[i].res.ok
    /\ pc' = "process"
    /\ idx' = 1
    /\ UNCHANGED <<fr, max_concurrent, file_urls, base_dir, permits, tpc, local_path,
                   out, result, run_ret, files>>

\* join_all(download_tasks).await: every task has finished.
JoinAll ==
    /\ pc = "join"
    /\ \A i \in 1..NumTasks : tpc[i] = "finished"
    /\ pc' = "process"
    /\ idx' = 1
    /\ UNCHANGED <<fr, max_concurrent, file_urls, base_dir, permits, tpc, local_path,
                   out, result, run_ret, files>>

\* One iteration of the loop over download_results, in task order.
record(r, o) ==
    IF o.res.ok
    THEN add_success(r, o.url, o.res.val[1][1], o.res.val[1][2])
    ELSE add_failure(r, o.url, o.res.err)

ProcessResult ==
    /\ pc = "process"
    /\ idx <= NumTasks
    /\ result' = record(result, out[idx])
    /\ idx' = idx + 1
    /\ UNCHANGED <<fr, pc, max_concurrent, file_urls, base_dir, permits, tpc,
                   local_path, out, run_ret, files>>

\* Ok(result)
ReturnResult ==
    /\ pc = "process"
    /\ idx > NumTasks
    /\ run_ret' = Ok(result)
    /\ pc' = "returned"
    /\ UNCHANGED <<fr, max_concurrent, file_urls, base_dir, permits, tpc,
                   local_path, out, result, idx, files>>

\* --------------------------------------------------------- specifications

\* A run of process_url with max_concurrent in 0..MaxConcurrent.
Init ==
    /\ fr = [f \in Frames |-> IF f = 0 THEN StartFrame("fetch_content", "llms.txt")
                                       ELSE IdleFrame]
    /\ pc = "fetch_manifest"
    /\ max_concurrent \in 0..MaxConcurrent
    /\ file_urls = <<>>
    /\ base_dir = ""
    /\ permits = 0
    /\ tpc = [i \in Tasks |-> "none"]
    /\ local_path = [f \in Frames |-> <<>>]
    /\ out = [i \in Tasks |-> NoOutput]
    /\ result = NewResult
    /\ idx = 0
    /\ run_ret = NoResult
    /\ files = {}

ManifestStep ==
    /\ \/ \E o \in ManifestSend : Respond(0, o)
       \/ \E read \in BOOLEAN : \E c \in IF read THEN Manifests ELSE {<<>>} :
             ReadBody(0, read, c, 0)
       \/ Wake(0)

TaskStep(i) ==
    \/ \E o \in RunSend : Respond(i, o)
    \/ ReadBody(i, TRUE, <<>>, ServedLen(fr[i].url))
    \/ \E ok \in BOOLEAN : CreateDirAll(i, ok)
    \/ \E ok \in BOOLEAN : WriteFile(i, ok)
    \/ Wake(i)

Next ==
    \/ ManifestStep
    \/ ManifestFetchFailed
    \/ ParseManifest
    \/ \E ok \in BOOLEAN : CreateLocalDirectory(ok)
    \/ SpawnTasks
    \/ \E i \in Tasks : Acquire(i)
    \/ \E i \in Tasks : \E ok \in BOOLEAN : MapPath(i, ok)
    \/ \E i \in Tasks : TaskStep(i)
    \/ JoinAll
    \/ ProcessResult
    \/ ReturnResult

Spec == Init /\ [][Next]_vars

\* The steps of process_url itself, the manifest fetch included.
MainStep ==
    \/ ManifestStep
    \/ ManifestFetchFailed
    \/ ParseManifest
    \/ \E ok \in BOOLEAN : CreateLocalDirectory(ok)
    \/ SpawnTasks
    \/ JoinAll
    \/ ProcessResult
    \/ ReturnResult

\* The steps of the task spawned for entry i.
SpawnedStep(i) ==
    \/ Acquire(i)
    \/ \E ok \in BOOLEAN : MapPath(i, ok)
    \/ TaskStep(i)

\* The runtime polls every future that can make progress: process_url and
\* each spawned task keep taking their steps, and every request, file
\* operation and sleep a step waits for completes.
Fairness ==
    /\ WF_vars(MainStep)
    /\ \A i \in Tasks : WF_vars(SpawnedStep(i))

\* A run of process_url under a fair scheduler.
SpecLive == Init /\ [][Next]_vars /\ Fairness

\* One call of fetch_content or download_file, against every server behaviour.
InitFetch ==
    /\ \E fn \in {"fetch_content", "download_file"} :
         fr = [f \in Frames |-> IF f = 0 THEN StartFrame(fn, "a") ELSE IdleFrame]
    /\ pc = "fetch"
    /\ max_concurrent = 0
    /\ file_urls = <<>>
    /\ base_dir = "dir"
    /\ permits = 0
    /\ tpc = [i \in Tasks |-> "none"]
    /\ local_path = [f \in Frames |-> IF f = 0 THEN LocalPath("dir", "a") ELSE <<>>]
    /\ out = [i \in Tasks |-> NoOutput]
    /\ result = NewResult
    /\ idx = 0
    /\ run_ret = NoResult
    /\ files = {}

FetchStep ==
    /\ \/ \E o \in AllSend : Respond(0, o)
       \/ \E read \in BOOLEAN : \E c \in IF read THEN FetchBodies ELSE {<<>>} :
             \E n \in BodyLens : ReadBody(0, read, c, n)
       \/ \E ok \in BOOLEAN : CreateDirAll(0, ok)
       \/ \E ok \in BOOLEAN : WriteFile(0, ok)
       \/ Wake(0)

NextFetch == FetchStep

SpecFetch == InitFetch /\ [][NextFetch]_vars

\* process_url from the return of fetch_content with a manifest text to the
\* parsed list: every text of up to MaxChars characters, under each base.
base_url_of(llms_txt_url) == SubSeq(llms_txt_url, 1, Len(llms_txt_url) - 2)

InitParse ==
    /\ \E base_url \in BaseUrls : \E content \in Texts \cup SampleTexts :
         fr = [f \in Frames |->
                 IF f = 0
                 THEN [StartFrame("fetch_content", base_url \o <<"/", "llms.txt">>)
                          EXCEPT !.pc = "ret", !.ret = Ok(content)]
                 ELSE IdleFrame]
    /\ pc = "fetch_manifest"
    /\ max_concurrent = 0
    /\ file_urls = <<>>
    /\ base_dir = ""
    /\ permits = 0
    /\ tpc = [i \in Tasks |-> "none"]
    /\ local_path = [f \in Frames |-> <<>>]
    /\ out = [i \in Tasks |-> NoOutput]
    /\ result = NewResult
    /\ idx = 0
    /\ run_ret = NoResult
    /\ files = {}

\* parse_llms_txt(&llms_content, base_url)?, and the return of the empty result.
ParseText ==
    /\ pc = "fetch_manifest"
    /\ fr[0].pc = "ret"
    /\ fr[0].ret.ok
    /\ LET parsed == parse_llms_txt_text(fr[0].ret.val[1], base_url_of(fr[0].url)) IN
         IF ~parsed.ok
         THEN /\ run_ret' = Err(parsed.err)
              /\ pc' = "returned"
              /\ UNCHANGED file_urls
         ELSE IF parsed.val[1] = <<>>
         THEN /\ run_ret' = Ok(result)
              /\ pc' = "returned"
              /\ UNCHANGED file_urls
         ELSE /\ file_urls' = parsed.val[1]
              /\ pc' = "mkdir"
              /\ UNCHANGED run_ret
    /\ UNCHANGED <<fr, max_concurrent, base_dir, permits, tpc, local_path,
                   out, result, idx, files>>

NextParse == ParseText

SpecParse == InitParse /\ [][NextParse]_vars

\* The path mapper: process_url from fetch_content's return to the start of
\* download_file, for manifests of one reference with a path of at most
\* MaxPathChars characters after its prefix.
MaxPathChars == 4

PathChars == {"/", ".", "x", ":", "X254"}

PathTexts == UNION {[1..n -> PathChars] : n \in 0..MaxPathChars}

RefPrefixes == {<<"/">>, <<"http:", "/", "/", "b", "/">>, <<"http:", "/", "/", "x", "/">>}

InitMap ==
    /\ \E base_url \in BaseUrls : \E prefix \in RefPrefixes : \E path \in PathTexts :
         fr = [f \in Frames |->
                 IF f = 0
                 THEN [StartFrame("fetch_content", base_url \o <<"/", "llms.txt">>)
                          EXCEPT !.pc = "ret", !.ret = Ok(prefix \o path)]
                 ELSE IdleFrame]
    /\ pc = "fetch_manifest"
    /\ max_concurrent = 1
    /\ file_urls = <<>>
    /\ base_dir = ""
    /\ permits = 0
    /\ tpc = [i \in Tasks |-> "none"]
    /\ local_path = [f \in Frames |-> <<>>]
    /\ out = [i \in Tasks |-> NoOutput]
    /\ result = NewResult
    /\ idx = 0
    /\ run_ret = NoResult
    /\ files = {}

\* create_local_directory(base_url, output_dir)? returned dir.
DirectoryCreated(dir) ==
    /\ IF dir.ok
       THEN /\ base_dir' = dir.val[1]
            /\ pc' = "spawn"
            /\ UNCHANGED run_ret
       ELSE /\ run_ret' = dir
            /\ pc' = "returned"
            /\ UNCHANGED base_dir
    /\ UNCHANGED <<fr, max_concurrent, file_urls, permits, tpc, local_path,
                   out, result, idx, files>>

\* create_local_directory(base_url, output_dir)?; created tells whether its
\* fs::create_dir_all succeeds.
CreateLocalDirectoryAt(created) ==
    /\ pc = "mkdir"
    /\ DirectoryCreated(IF created
                        THEN create_local_directory(base_url_of(fr[0].url), OutputDir)
                        ELSE Err(IoError("create_dir_all")))

\* Task i: get_local_file_path(file_url, base_dir)? returned path.
PathMapped(i, path) ==
    /\ IF path.ok
       THEN /\ local_path' = [local_path EXCEPT ![i] = path.val[1]]
            /\ fr' = [fr EXCEPT ![i] = StartFrame("download_file", file_urls[i])]
            /\ tpc' = [tpc EXCEPT ![i] = "running"]
            /\ UNCHANGED <<out, permits>>
       ELSE /\ TaskEnds(i, path)
            /\ UNCHANGED <<fr, local_path>>
    /\ UNCHANGED <<pc, max_concurrent, file_urls, base_dir, result, idx, run_ret, files>>

\* Task i: get_local_file_path(file_url, base_dir)?, then download_file
\* starts, or the task ends with the error.
MapPathAt(i, created) ==
    /\ tpc[i] = "mapping"
    /\ PathMapped(i, get_local_file_path(file_urls[i], base_dir, created))

NextMap ==
    \/ ParseText
    \/ \E created \in BOOLEAN : CreateLocalDirectoryAt(created)
    \/ SpawnTasks
    \/ \E i \in Tasks : Acquire(i)
    \/ \E i \in Tasks : \E created \in BOOLEAN : MapPathAt(i, created)

SpecMap == InitMap /\ [][NextMap]_vars

\* ------------------------------------------------------------- properties

\* The tasks holding a permit: mapping their path or inside download_file.
InFlight == {i \in Tasks : tpc[i] \in {"mapping", "running"}}

\* The tasks whose download_file call is suspended at some await.
Fetching == {i \in Tasks : fr[i].pc # "idle"}

RECURSIVE Count(_, _)
Count(seq, x) ==
    IF seq = <<>> THEN 0
    ELSE (IF Head(seq) = x THEN 1 ELSE 0) + Count(Tail(seq), x)

UrlsOf(entries) == [k \in 1..Len(entries) |-> entries[k][1]]

Returned == pc = "returned"

ReturnedResult == pc = "returned" /\ run_ret.ok

success_count(r) == Len(r.successful)

failure_count(r) == Len(r.failed)

\* C1: in every reachable state of a run with concurrency limit
\* max_concurrent, at most max_concurrent tasks have acquired a permit and
\* not yet finished, and at most that many download_file calls are under way.
C1_ConcurrencyBound ==
    /\ Cardinality(InFlight) <= max_concurrent
    /\ Cardinality(Fetching) <= max_concurrent

\* C1 witness: limit 1, two entries: one task has a GET in flight while the
\* other still waits for the permit.
C1_Witness ==
    /\ max_concurrent = 1
    /\ NumTasks = 2
    /\ \E i, j \in Tasks : /\ tpc[i] = "running" /\ fr[i].pc = "get"
                            /\ tpc[j] = "waiting"

\* C2: when the run returns a result, the success and failure lists together
\* hold every manifest entry exactly once, duplicates counted separately: the
\* counts add up to the number of entries, and every URL occurs in the two
\* lists together as often as in the manifest; the i-th entry is in the list
\* its own outcome names.
C2_EveryEntryOnce ==
    ReturnedResult =>
        LET r == run_ret.val[1] IN
        /\ success_count(r) + failure_count(r) = NumTasks
        /\ \A u \in Urls :
              Count(UrlsOf(r.successful), u) + Count(UrlsOf(r.failed), u)
                  = Count(file_urls, u)
        /\ \A u \in Urls :
              Count(UrlsOf(r.failed), u)
                  = Cardinality({i \in 1..NumTasks : file_urls[i] = u /\ ~out[i].res.ok})

\* C2 witness: the manifest lists the same URL twice; both downloads fail
\* and the returned result holds the URL twice.
C2_Witness ==
    /\ ReturnedResult
    /\ file_urls = <<"a", "a">>
    /\ failure_count(run_ret.val[1]) = 2

\* C3: a failed download does not stop its siblings: once the tasks are
\* spawned, a run that returns returns a result, every task has finished, and
\* the result counts every task that ended Ok as a success and every task
\* that ended in an error as a failure; with one 404 among k entries and the
\* others successful that is k-1 successes and 1 failure.
C3_FailureIsolated ==
    (Returned /\ base_dir # "") =>
        /\ run_ret.ok
        /\ \A i \in 1..NumTasks : tpc[i] = "finished"
        /\ success_count(run_ret.val[1])
             = Cardinality({i \in 1..NumTasks : out[i].res.ok})
        /\ failure_count(run_ret.val[1])
             = Cardinality({i \in 1..NumTasks : ~out[i].res.ok})
        /\ (/\ Cardinality({i \in 1..NumTasks : out[i].res.err.kind = "FileNotFound"}) = 1
            /\ \A i \in 1..NumTasks :
                  out[i].res.ok \/ out[i].res.err.kind = "FileNotFound")
           => /\ success_count(run_ret.val[1]) = NumTasks - 1
              /\ failure_count(run_ret.val[1]) = 1

\* C3 witness: two entries, the first answered 404 and the second
\* downloaded: the run returns 1 success and 1 failure.
C3_Witness ==
    /\ ReturnedResult
    /\ NumTasks = 2
    /\ out[1].res.err.kind = "FileNotFound"
    /\ out[2].res.ok
    /\ success_count(run_ret.val[1]) = 1
    /\ failure_count(run_ret.val[1]) = 1

\* No download task exists and no download_file call has issued a request.
NoTaskActivity ==
    \A i \in Tasks : tpc[i] = "none" /\ fr[i].pc = "idle" /\ fr[i].requests = 0

\* C4 (as claimed): once the manifest is fetched and parsed (file_urls holds
\* its entries), the run never returns an error and is never stuck short of
\* returning, whatever the concurrency limit and the outcome of the
\* directory creation.
C4_AlwaysRunResult ==
    file_urls # <<>> =>
        /\ Returned => run_ret.ok
        /\ ~Returned => ENABLED Next

\* C5: a failed manifest fetch makes process_url return ParseError at once,
\* with no result, no download task, no per-file request and no file
\* written; and a run that returned an error has none of these afterwards.
C5_ManifestFailureFatal ==
    /\ [][(pc = "fetch_manifest" /\ fr[0].pc = "ret" /\ ~fr[0].ret.ok)
            => /\ pc' = "returned"
               /\ ~run_ret'.ok
               /\ run_ret'.err.kind = "ParseError"
               /\ NoTaskActivity'
               /\ files' = {}]_vars
    /\ []((Returned /\ ~run_ret.ok) => (NoTaskActivity /\ files = {}))

\* C5 witness: the manifest was answered 404 and the run returned ParseError.
C5_Witness ==
    /\ Returned
    /\ run_ret.err.kind = "ParseError"
    /\ run_ret.err.cause = "FileNotFound"
    /\ NoTaskActivity

\* C6: whenever a download task exists or a download_file call is under
\* way, the manifest fetch has returned, the manifest is parsed, and the
\* tasks are those of the whole list: one per entry of file_urls.
C6_ManifestBeforeFanOut ==
    (~NoTaskActivity) =>
        /\ fr[0].pc = "idle"
        /\ pc \in {"join", "process", "returned"}
        /\ file_urls # <<>>
        /\ \A i \in Tasks : (tpc[i] # "none") <=> (i <= NumTasks)
        /\ \A i \in Tasks : (tpc[i] \in {"none", "waiting"}) => fr[i].requests = 0

\* C6 witness: a task has issued its first GET.
C6_Witness ==
    \E i \in Tasks : tpc[i] = "running" /\ fr[i].pc = "get" /\ fr[i].requests = 1

\* How attempt a ended, as the claims word it.
Is4xx(a) == a.transport = "none" /\ a.status >= 400 /\ a.status <= 499

Is5xx(a) == a.transport = "none" /\ a.status >= 500 /\ a.status <= 599

Is2xx(a) == a.transport = "none" /\ a.status >= 200 /\ a.status <= 299

\* A transport timeout, a connection failure or a 5xx status.
IsRetryable(a) == a.transport \in {"timeout", "connect"} \/ Is5xx(a)

\* The error the claims expect for an attempt that ended in a failure.
ExpectedError(a, url) ==
    IF a.transport = "timeout" THEN [kind |-> "Timeout", status |-> 0, url |-> url, cause |-> ""]
    ELSE IF a.transport # "none"
    THEN [kind |-> "NetworkError", status |-> 0, url |-> "", cause |-> a.transport]
    ELSE IF a.status = 404
    THEN [kind |-> "FileNotFound", status |-> 0, url |-> url, cause |-> ""]
    ELSE [kind |-> "HttpError", status |-> a.status, url |-> url, cause |-> ""]

\* Frame fm ended with attempt k, which returned error e, without a wait or
\* a request after it.
EndedAt(fm, k, e) ==
    /\ k = Len(fm.hist)
    /\ fm.pc = "ret"
    /\ fm.requests = k
    /\ Len(fm.delays) = k - 1
    /\ fm.ret = [ok |-> FALSE, val |-> <<>>, err |-> e]

\* C7: in fetch_content and in download_file, an attempt answered with a 4xx
\* status is the last one: the call returns right after it, with no backoff
\* wait and no further request, FileNotFound for 404 and HttpError with the
\* status otherwise; a 404 on the first attempt makes one request in all.
C7_ClientErrorNotRetried ==
    \A k \in 1..Len(fr[0].hist) :
        Is4xx(fr[0].hist[k]) =>
            /\ EndedAt(fr[0], k, ExpectedError(fr[0].hist[k], fr[0].url))
            /\ fr[0].ret.err.kind = IF fr[0].hist[k].status = 404
                                    THEN "FileNotFound" ELSE "HttpError"

\* C7 witness: download_file answered 404 on its first attempt returned
\* FileNotFound after one request and no wait.
C7_Witness ==
    /\ fr[0].fn = "download_file"
    /\ fr[0].pc = "ret"
    /\ Len(fr[0].hist) = 1
    /\ fr[0].hist[1].status = 404
    /\ fr[0].requests = 1
    /\ fr[0].delays = <<>>
    /\ fr[0].ret.err.kind = "FileNotFound"

\* C8: a call all of whose attempts ended in a timeout, a connection
\* failure or a 5xx status has, when it returns, issued 1 + max_retries = 4
\* requests and returns the error of the last attempt.
C8_ExhaustedReturnsLast ==
    (fr[0].pc = "ret" /\ \A k \in 1..Len(fr[0].hist) : IsRetryable(fr[0].hist[k])) =>
        /\ Len(fr[0].hist) = 1 + max_retries
        /\ fr[0].requests = 4
        /\ fr[0].ret = [ok |-> FALSE, val |-> <<>>,
                        err |-> ExpectedError(fr[0].hist[Len(fr[0].hist)], fr[0].url)]

\* C8 witness: download_file answered 500, 500, 500 and then 503 returned
\* HttpError 503 after four requests.
C8_Witness ==
    /\ fr[0].fn = "download_file"
    /\ fr[0].pc = "ret"
    /\ fr[0].requests = 4
    /\ fr[0].hist[1].status = 500
    /\ fr[0].hist[4].status = 503
    /\ fr[0].ret.err.kind = "HttpError"
    /\ fr[0].ret.err.status = 503

\* Attempts 1..n-1 ended in retryable failures and attempt n got a 2xx
\* response whose body was read.
SucceededOnAttempt(fm, n) ==
    /\ Len(fm.hist) = n
    /\ \A k \in 1..(n - 1) : IsRetryable(fm.hist[k])
    /\ Is2xx(fm.hist[n])
    /\ fm.hist[n].body = "ok"

\* C9 (as claimed): retryable failures on attempts 1..n-1 and a 2xx response
\* with a readable body on attempt n make the call succeed with exactly n
\* requests.
C9_SucceedsOnNthAttempt ==
    \A n \in 1..4 :
        (fr[0].pc = "ret" /\ SucceededOnAttempt(fr[0], n)) =>
            fr[0].ret.ok /\ fr[0].requests = n

\* C9 (amended): retryable failures on attempts 1..n-1 and a 2xx response
\* with a readable body on attempt n end the call after exactly n requests;
\* fetch_content succeeds, and download_file succeeds when the parent
\* directory is created and the file written, and returns IoError when
\* either fails.
C9_SucceedsOnNthAttemptUnlessIo ==
    \A n \in 1..4 :
        (fr[0].pc = "ret" /\ SucceededOnAttempt(fr[0], n)) =>
            /\ fr[0].requests = n
            /\ Len(fr[0].delays) = n - 1
            /\ fr[0].fn = "fetch_content" => fr[0].ret.ok
            /\ fr[0].fn = "download_file" =>
                  /\ fr[0].ret.ok <=> fr[0].hist[n].io = "ok"
                  /\ fr[0].ret.ok => fr[0].ret.val = <<fr[0].bytes_len>>
                  /\ ~fr[0].ret.ok => fr[0].ret.err.kind = "IoError"

\* C9 witness: download_file answered 500, 500 and then 200 succeeded after
\* three requests.
C9_Witness ==
    /\ fr[0].fn = "download_file"
    /\ fr[0].pc = "ret"
    /\ SucceededOnAttempt(fr[0], 3)
    /\ fr[0].hist[1].status = 500
    /\ fr[0].hist[2].status = 500
    /\ fr[0].hist[3].status = 200
    /\ fr[0].ret.ok
    /\ fr[0].requests = 3

\* C10 (as claimed): an attempt answered with a status that is not 2xx, not
\* 404 and not 5xx (1xx and 3xx as well as 4xx) is the last one: the call
\* returns HttpError with that status after it, without a wait or a retry.
C10_OnlyServerErrorsRetried ==
    \A k \in 1..Len(fr[0].hist) :
        LET a == fr[0].hist[k] IN
        (a.transport = "none" /\ ~Is2xx(a) /\ ~Is5xx(a) /\ a.status # 404) =>
            EndedAt(fr[0], k, [kind |-> "HttpError", status |-> a.status,
                               url |-> fr[0].url, cause |-> ""])

\* The errors of a fetch that come from the network: a status, a failed
\* send() or a failed body read.
NetworkKinds == {"HttpError", "FileNotFound", "Timeout", "NetworkError"}

\* C11: download_file has written to its destination only when it returned
\* Ok after a 2xx response whose body was read in full; a call that returns
\* an error caused by a status, a transport failure or a body-read failure
\* has written nothing at any attempt, and fetch_content never writes.
C11_WriteOnlyAfterFullBody ==
    /\ (fr[0].wrote \/ files # {}) =>
          /\ fr[0].fn = "download_file"
          /\ fr[0].pc = "ret"
          /\ fr[0].ret.ok
          /\ Is2xx(fr[0].hist[Len(fr[0].hist)])
          /\ fr[0].hist[Len(fr[0].hist)].body = "ok"
    /\ (fr[0].pc = "ret" /\ ~fr[0].ret.ok /\ fr[0].ret.err.kind \in NetworkKinds) =>
          ~fr[0].wrote /\ files = {}

\* C11 witness: download_file got a 200 whose body could not be read, was
\* then answered 503 until its attempts ran out, and returned HttpError
\* leaving no file.
C11_Witness ==
    /\ fr[0].fn = "download_file"
    /\ fr[0].pc = "ret"
    /\ Len(fr[0].hist) = 4
    /\ fr[0].hist[1].status = 200
    /\ fr[0].hist[1].body = "error"
    /\ fr[0].ret.err.kind = "HttpError"
    /\ files = {}

\* C12: a download_file call has issued a request only while its task holds
\* a permit; once the tasks are spawned the free permits and the tasks
\* holding one add up to max_concurrent, so every task that ended (with a
\* success, a path-mapping error, a status error, exhausted retries or an
\* I/O error) gave its permit back; and when the run returns all
\* max_concurrent permits are free.
C12_PermitReleased ==
    /\ \A i \in Tasks : fr[i].requests > 0 => tpc[i] = "running"
    /\ tpc[1] # "none" => permits + Cardinality(InFlight) = max_concurrent
    /\ (Returned /\ tpc[1] # "none") => (permits = max_concurrent /\ InFlight = {})

\* C12 witness: limit 1 and two entries; the first task ended with an I/O
\* error, the second with a success, and the run returned with the permit free.
C12_Witness ==
    /\ ReturnedResult
    /\ max_concurrent = 1
    /\ NumTasks = 2
    /\ out[1].res.err.kind = "IoError"
    /\ out[2].res.ok
    /\ permits = 1

\* C13 (as claimed): a manifest that was fetched and parses to zero
\* references makes the run return a result with empty lists, no files
\* counted and no bytes, without a download task, and that result counts as
\* successful (all_successful).
C13_EmptyManifestSuccessful ==
    [][(/\ pc = "fetch_manifest"
        /\ fr[0].pc = "ret"
        /\ fr[0].ret.ok
        /\ parse_llms_txt(fr[0].ret.val[1]) = Ok(<<>>))
       => /\ pc' = "returned"
          /\ run_ret'.ok
          /\ run_ret'.val[1] = NewResult
          /\ NoTaskActivity'
          /\ all_successful(run_ret'.val[1])]_vars

\* The references recorded in r.
Recorded(r) ==
    {r.successful[k][1] : k \in 1..Len(r.successful)}
        \cup {r.failed[k][1] : k \in 1..Len(r.failed)}

\* C14 (as claimed): the count of files processed equals the number of
\* distinct references recorded.
C14_RecordIdempotent ==
    result.total_files = Cardinality(Recorded(result))

\* The bytes of the successful ones among the first n task outputs.
RECURSIVE BytesOf(_)
BytesOf(n) ==
    IF n = 0 THEN 0
    ELSE (IF out[n].res.ok THEN out[n].res.val[1][2] ELSE 0) + BytesOf(n - 1)

\* The number of task outputs recorded so far.
NumRecorded == IF idx = 0 THEN 0 ELSE idx - 1

\* C15: in every reachable state, whatever the order the tasks completed
\* in, total_files is the number of successes plus the number of failures
\* and the number of outputs recorded, and total_bytes is the sum of the byte
\* counts of the recorded successes (a failure adds nothing); the result
\* returned is the one built.
C15_TotalsConsistent ==
    /\ result.total_files = success_count(result) + failure_count(result)
    /\ result.total_files = NumRecorded
    /\ result.total_bytes = BytesOf(NumRecorded)
    /\ success_count(result) = Cardinality({i \in 1..NumRecorded : out[i].res.ok})
    /\ ReturnedResult => run_ret.val[1] = result

\* C15 witness: of two entries the first download failed and the second
\* (2 bytes) succeeded: the run returned 2 files processed and 2 bytes.
C15_Witness ==
    /\ ReturnedResult
    /\ file_urls = <<"a", "b">>
    /\ ~out[1].res.ok
    /\ out[2].res.ok
    /\ result.total_files = 2
    /\ result.total_bytes = 2
    /\ success_count(result) = 1

\* The manifest text fetch_content returned, the base it is parsed under,
\* and whether the parse returned a list.
Content == fr[0].ret.val[1]

Base == Url_parse(base_url_of(fr[0].url))

Parsed == pc = "mkdir" \/ (pc = "returned" /\ run_ret.ok)

\* The location a reference resolves to.
Location(ref) ==
    LET r == resolve_url(ref, Base) IN IF r.ok THEN r.val[1] ELSE <<"unresolved">>

\* A line that is neither blank nor a comment and from which a path is extracted.
IsAccepted(line) ==
    /\ trim(line) # <<>>
    /\ ~starts_with(trim(line), "#")
    /\ extract_file_path(trim(line)).some

AcceptedLines == SelectSeq(lines(Content), IsAccepted)

\* C16: when the parse returns a list, the list has one entry per accepted
\* line, the n-th entry is the location of the n-th accepted line's
\* reference, and a location two lines resolve to occurs once for each.
C16_OrderPreservedNoDedup ==
    Parsed =>
        /\ Len(file_urls) = Len(AcceptedLines)
        /\ \A n \in 1..Len(file_urls) :
              file_urls[n] = Location(extract_file_path(AcceptedLines[n]).val)

\* C16 witness: the manifest ".", line break, "." lists the same reference
\* on two lines, and the parsed list holds its location twice.
C16_Witness ==
    /\ pc = "mkdir"
    /\ Content = <<".", "\n", ".">>
    /\ Len(file_urls) = 2
    /\ file_urls[1] = file_urls[2]

\* A line of whitespace only, and a line whose first character that is not
\* whitespace is '#'.
IsBlankLine(line) == \A i \in 1..Len(line) : line[i] = " "

IsCommentLine(line) ==
    \E i \in 1..Len(line) : line[i] = "#" /\ \A j \in 1..(i - 1) : line[j] = " "

IsKeptLine(line) == ~IsBlankLine(line) /\ ~IsCommentLine(line)

KeptLines == SelectSeq(lines(Content), IsKeptLine)

\* C17: blank lines and comment lines contribute nothing, whatever follows
\* the '#': what the parse returns (the list, or the error) is what parsing
\* the other lines alone returns, and the list has at most one entry per
\* other line.
C17_BlankAndCommentSkipped ==
    LET kept == parse_text_lines(KeptLines, Base, <<>>) IN
    /\ Parsed => /\ kept.ok
                 /\ file_urls = kept.val[1]
                 /\ Len(file_urls) <= Len(KeptLines)
    /\ (pc = "returned" /\ ~run_ret.ok) => (~kept.ok /\ run_ret.err = kept.err)

\* C17 witness: the one-line manifest '#' followed by a markdown link to "."
\* was parsed to the empty list.
C17_Witness ==
    /\ Content = <<"#", "](", ".", ")">>
    /\ pc = "returned"
    /\ run_ret.ok
    /\ file_urls = <<>>

\* The line without the whitespace around it.
Strip(line) ==
    LET ns == {i \in 1..Len(line) : line[i] # " "} IN
    IF ns = {} THEN <<>>
    ELSE SubSeq(line, CHOOSE i \in ns : \A j \in ns : i <= j,
                      CHOOSE i \in ns : \A j \in ns : i >= j)

\* The first "](" of t is at i, the next ')' at j, and a '.' lies between.
IsLink(t, i, j) ==
    /\ i < j
    /\ t[i] = "](" /\ \A k \in 1..(i - 1) : t[k] # "]("
    /\ t[j] = ")" /\ \A k \in (i + 1)..(j - 1) : t[k] # ")"
    /\ \E k \in (i + 1)..(j - 1) : t[k] = "."

\* The reference the precedence rules give for a kept line.
ExpectedRef(line) ==
    LET t == Strip(line) IN
    IF \E i, j \in 1..Len(t) : IsLink(t, i, j)
    THEN LET i == CHOOSE i \in 1..Len(t) : \E j \in 1..Len(t) : IsLink(t, i, j)
             j == CHOOSE j \in 1..Len(t) : IsLink(t, i, j)
         IN  Some(SubSeq(t, i + 1, j - 1))
    ELSE IF (\E k \in 1..Len(t) : t[k] = ".") /\ t[1] # "-" THEN Some(t)
    ELSE None

RECURSIVE ExpectedLocations(_)
ExpectedLocations(ls) ==
    IF ls = <<>> THEN <<>>
    ELSE IF IsKeptLine(Head(ls)) /\ ExpectedRef(Head(ls)).some
    THEN <<Location(ExpectedRef(Head(ls)).val)>> \o ExpectedLocations(Tail(ls))
    ELSE ExpectedLocations(Tail(ls))

\* The manifest "# x", "/d/x.x", "- x](/d/e.x): x" and the two locations it names.
ExampleManifest ==
    <<"#", " ", "x", "\n",
      "/", "d", "/", "x", ".", "x", "\n",
      "-", " ", "x", "](", "/", "d", "/", "e", ".", "x", ")", ":", " ", "x", "\n">>

ExampleLocations ==
    << <<"http:", "/", "/", "b", "/", "d", "/", "x", ".", "x">>,
       <<"http:", "/", "/", "b", "/", "d", "/", "e", ".", "x">> >>

\* C18: the reference of a line that is neither blank nor a comment is the
\* text between the first "](" and the next ')' when that text contains a
\* '.', else the whole trimmed line when it contains a '.' and does not start
\* with '-', else the line is skipped without an error: the parsed list holds
\* the locations of exactly these references, in order; and the example
\* manifest parses to its two locations.
C18_ExtractionPrecedence ==
    /\ Parsed => file_urls = ExpectedLocations(lines(Content))
    /\ (pc = "returned" /\ ~run_ret.ok) =>
          \E n \in 1..Len(lines(Content)) :
              /\ IsKeptLine(lines(Content)[n])
              /\ ExpectedRef(lines(Content)[n]).some
              /\ ~resolve_url(ExpectedRef(lines(Content)[n]).val, Base).ok
    /\ parse_llms_txt_text(ExampleManifest, <<"http:", "/", "/", "b">>)
          = Ok(ExampleLocations)

\* C18 witness: the list item '-' with a markdown link to "." was parsed,
\* under the base http://b, to the one location http://b/.
C18_Witness ==
    /\ Content = <<"-", "](", ".", ")">>
    /\ pc = "mkdir"
    /\ file_urls = << <<"http:", "/", "/", "b", "/">> >>

\* C19 (as claimed): every location in the parsed list is an absolute URL
\* with the scheme http (or https), a host and a path.
C19_LocationsAreHttp ==
    \A n \in 1..Len(file_urls) :
        LET u == Url_parse(file_urls[n]) IN
        /\ u.valid
        /\ is_special(u.scheme)
        /\ u.has_host
        /\ ~u.opaque

\* The references of the accepted lines, in order.
AcceptedRefs ==
    [n \in 1..Len(AcceptedLines) |-> extract_file_path(AcceptedLines[n]).val]

FirstUnresolved ==
    LET bad == {n \in 1..Len(AcceptedRefs) : ~resolve_url(AcceptedRefs[n], Base).ok} IN
    IF bad = {} THEN 0 ELSE CHOOSE n \in bad : \A m \in bad : n <= m

\* C21: when an accepted reference does not resolve, the parse (and with it
\* process_url) returns ParseError naming the first such reference, and no
\* list: the references accepted before it are not returned; and the parse
\* returns an error only then.
C21_UnresolvedFailsWholeParse ==
    pc # "fetch_manifest" =>
        /\ FirstUnresolved # 0 =>
              /\ pc = "returned"
              /\ ~run_ret.ok
              /\ run_ret.err.kind = "ParseError"
              /\ run_ret.err.cause = AcceptedRefs[FirstUnresolved]
              /\ file_urls = <<>>
        /\ (pc = "returned" /\ ~run_ret.ok) => FirstUnresolved # 0

\* C21 witness: the line "." is accepted and resolves, the next line "//:."
\* does not resolve; the parse returned ParseError naming "//:." and no list.
C21_Witness ==
    /\ Content = <<".", "\n", "/", "/", ":", ".">>
    /\ pc = "returned"
    /\ run_ret.err.kind = "ParseError"
    /\ run_ret.err.cause = <<"/", "/", ":", ".">>
    /\ file_urls = <<>>

\* What the mapper is asked about task i's location.
LocationUrl(i) == Url_parse(file_urls[i])

Mapped(i) == tpc[i] = "running"

\* C22: the destination of every location lies under the output directory's
\* subdirectory named after the sanitized host of that location itself.
C22_DestinationUnderOwnHost ==
    \A i \in Tasks :
        Mapped(i) =>
            /\ Len(local_path[i]) > Len(OutputDir)
            /\ SubSeq(local_path[i], 1, Len(OutputDir) + 1)
                   = Append(OutputDir, sanitize_filename(LocationUrl(i).host))

AllSlashes(s) == \A k \in 1..Len(s) : s[k] = "/"

\* C23: a location whose path is empty or holds only '/' characters maps to
\* index.html directly under the mirror directory.
C23_SlashOnlyPathIsIndex ==
    \A i \in Tasks :
        Mapped(i) /\ AllSlashes(Url_path(LocationUrl(i))) =>
            local_path[i] = Append(base_dir, <<"index.html">>)

\* The bytes of a name ("cut" is one byte in every text of the model: only a
\* run of 254 letters fails to fit, into the one byte another run left).
RECURSIVE ByteLength(_)
ByteLength(s) == IF s = <<>> THEN 0 ELSE ByteLen(Head(s)) + ByteLength(Tail(s))

IsSanitized(segment) ==
    /\ segment # <<>>
    /\ \A k \in 1..Len(segment) : segment[k] \notin invalid_chars \cup {"http:"}
    /\ Head(segment) \notin {".", " "}
    /\ segment[Len(segment)] \notin {".", " "}
    /\ ByteLength(segment) <= MaxFilenameLen

\* C29: every segment of a destination below the output directory is
\* sanitized: free of invalid characters, not starting or ending with '.'
\* or space, not empty and no longer than the limit.
C29_SegmentsSanitized ==
    \A i \in Tasks :
        Mapped(i) =>
            \A k \in (Len(OutputDir) + 1)..Len(local_path[i]) :
                IsSanitized(local_path[i][k])

\* C24: get_local_file_path never fails: a task that asks for its
\* destination gets one and goes on to download_file.
C24_MapperNeverFails ==
    [][\A i \in Tasks : tpc[i] = "mapping" => tpc'[i] \in {"mapping", "running"}]_vars

\* C25: no two tasks of a run write the same destination: two tasks are
\* never at the write of one path together, and no path is written by two
\* tasks.
C25_WritesDisjoint ==
    /\ \A i, j \in Tasks :
           i # j /\ fr[i].pc = "write" /\ fr[j].pc = "write" =>
               local_path[i] # local_path[j]
    /\ \A w1, w2 \in files : w1[2] = w2[2] => w1[1] = w2[1]

\* A main that exits 0 only when every file was downloaded.
exit_status_all_or_nothing(ret) ==
    IF ret.ok /\ all_successful(ret.val[1]) THEN 0 ELSE 1

\* main: the exit status after process_url returned ret.
exit_status(ret) ==
    IF ret.ok
    THEN IF all_successful(ret.val[1]) THEN 0
         ELSE IF success_count(ret.val[1]) > 0 THEN 0
         ELSE 1
    ELSE 1

\* C26: the exit status is 0 exactly when the run returned a result with at
\* least one success; it is not 0 when process_url returned an error or a
\* result without a success, the empty one included.
C26_ExitStatus ==
    Returned =>
        /\ exit_status(run_ret) = 0 <=> (run_ret.ok /\ success_count(run_ret.val[1]) >= 1)
        /\ ~run_ret.ok => exit_status(run_ret) # 0
        /\ (run_ret.ok /\ run_ret.val[1] = NewResult) => exit_status(run_ret) # 0

C26_Witness ==
    /\ ReturnedResult
    /\ success_count(run_ret.val[1]) >= 1
    /\ failure_count(run_ret.val[1]) >= 1
    /\ exit_status(run_ret) = 0

\* The call has made every attempt the retry loop allows.
Exhausted(fm) == fm.pc = "ret" /\ fm.requests = max_retries + 1 /\ ~fm.ret.ok
                     /\ fm.ret.err.kind \in NetworkKinds

\* C27: the wait before the k-th retry (k from 0) is base_delay * 2^k: 500,
\* 1000 and 2000 ms; a wait lies between two attempts only, so a call that
\* exhausts its attempts has waited max_retries times and a call that has
\* returned has waited once less than it has sent requests.
C27_BackoffDelays ==
    LET fm   == fr[0]
        last == fm.hist[Len(fm.hist)]
    IN
    /\ \A k \in 1..Len(fm.delays) : fm.delays[k] = base_delay * Pow2(k - 1)
    /\ fm.delays \in {<<>>, <<500>>, <<500, 1000>>, <<500, 1000, 2000>>}
    /\ Len(fm.delays) <= max_retries
    /\ fm.pc = "sleep" =>
          /\ Len(fm.delays) = fm.requests
          /\ fm.requests <= max_retries
          /\ ~Is4xx(last)
          /\ ~(Is2xx(last) /\ last.body = "ok")
    /\ fm.pc \notin {"sleep", "idle"} => Len(fm.delays) = fm.requests - 1
    /\ Exhausted(fm) => Len(fm.delays) = max_retries

C27_Witness ==
    /\ Exhausted(fr[0])
    /\ fr[0].delays = <<500, 1000, 2000>>

\* The category the kind of an error stands for.
KindCategory(e) ==
    CASE e.kind = "FileNotFound" -> "not_found"
      [] e.kind = "HttpError" /\ e.status = 404 -> "not_found"
      [] e.kind = "HttpError" /\ e.status = 403 -> "forbidden"
      [] e.kind = "HttpError" /\ e.status >= 500 /\ e.status <= 599 -> "server_error"
      [] e.kind = "Timeout" -> "timeout"
      [] e.kind = "NetworkError" /\ e.cause = "connect" -> "network"
      [] OTHER -> "other"

\* C28: the category stored with the error a fetch failed with follows from
\* the kind of the error: not_found for a 404, forbidden for a 403,
\* server_error for a 5xx, timeout for a timeout, network for a connection
\* failure and other for another status.
C28_CategoryFromKind ==
    LET e == fr[0].ret.err IN
    (/\ fr[0].pc = "ret"
     /\ ~fr[0].ret.ok
     /\ \/ e.kind \in {"HttpError", "FileNotFound", "Timeout"}
        \/ e.kind = "NetworkError" /\ e.cause = "connect")
        => error_type(e) = KindCategory(e)

IoFailed(i) == ~out[i].res.ok /\ out[i].res.err.kind = "IoError"

\* C30: a download_file that is creating the parent directory or writing the
\* file goes on to the write or ends its task at once, with Ok or with
\* IoError, and never waits or sends another request; a task that failed
\* with IoError does not keep the run from returning its result, which
\* records the failure.
C30_IoFailureEndsFetch ==
    /\ [][\A i \in Tasks :
            (fr[i].pc \in {"mkdir", "write"} /\ fr'[i] # fr[i]) =>
                \/ fr[i].pc = "mkdir" /\ fr'[i] = [fr[i] EXCEPT !.pc = "write"]
                \/ /\ fr'[i].pc = "idle"
                   /\ tpc'[i] = "finished"
                   /\ out'[i].res.ok \/ IoFailed(i)']_vars
    /\ [](\A i \in 1..NumTasks :
            (Returned /\ tpc[i] = "finished" /\ IoFailed(i)) =>
                /\ run_ret.ok
                /\ \E k \in 1..failure_count(run_ret.val[1]) :
                       run_ret.val[1].failed[k] = <<file_urls[i], out[i].res.err>>)

C30_Witness ==
    /\ ReturnedResult
    /\ NumTasks = 2
    /\ IoFailed(1)
    /\ out[1].res.err.cause = "write"
    /\ out[2].res.ok
    /\ success_count(run_ret.val[1]) = 1
    /\ run_ret.val[1].failed = <<<<file_urls[1], out[1].res.err>>>>

\* C31: no fetch makes more than max_retries + 1 requests, and under a
\* fair scheduler a run with a concurrency limit of at least 1 returns and
\* every task that waits for a permit finishes.
C31_EveryRunTerminates ==
    /\ [](\A f \in Frames : fr[f].requests <= max_retries + 1)
    /\ (max_concurrent >= 1) =>
          /\ <>Returned
          /\ \A i \in Tasks : (tpc[i] = "waiting") ~> (tpc[i] = "finished")

\* C31 witness: two tasks shared one permit, both finished and the run
\* returned its result.
C31_Witness ==
    /\ ReturnedResult
    /\ max_concurrent = 1
    /\ NumTasks = 2
    /\ \A i \in 1..NumTasks : tpc[i] = "finished"
    /\ permits = 1
====
